---------------------------- MODULE Spec2Model ----------------------------
(***************************************************************************)
(* Model of the text pipeline of limmatwelle_scraper_selenium.py:          *)
(* find_baugesuch_sections, parse_baugesuch and the record loop of main.   *)
(*                                                                         *)
(* A Python str is modelled as a sequence of Unicode code points, so that  *)
(* case folding, whitespace classes, regular-expression scans and literal  *)
(* replacements are computed character by character as the interpreter     *)
(* computes them.  Each literal is followed by its text in a comment.      *)
(* The alphabet of the inputs is ASCII, Latin-1 and the code points of the *)
(* mojibake table; on it str.upper and the case folding of re.IGNORECASE   *)
(* are the one-to-one maps Upper and Lower below.                          *)
(***************************************************************************)
EXTENDS Integers, Sequences, FiniteSets, TLC

(***************************************************************************)
(* Character classes                                                       *)
(***************************************************************************)

\* str.isspace / the class \s of re for str patterns
WhiteSpace == {9, 10, 11, 12, 13, 28, 29, 30, 31, 32, 133, 160}

IsSpace(c) == c \in WhiteSpace

\* the class \d on the alphabet: "0".."9"
IsDigit(c) == c >= 48 /\ c <= 57

\* the lower-case form re.IGNORECASE compares characters by
Lower(c) ==
    IF c >= 65 /\ c <= 90 THEN c + 32
    ELSE IF c >= 192 /\ c <= 222 /\ c # 215 THEN c + 32
    ELSE IF c = 338 THEN 339
    ELSE c

\* str.upper, one character
Upper(c) ==
    IF c >= 97 /\ c <= 122 THEN c - 32
    ELSE IF c >= 224 /\ c <= 254 /\ c # 247 THEN c - 32
    ELSE IF c = 339 THEN 338
    ELSE c

(***************************************************************************)
(* String primitives (no recursion over the length of a string)            *)
(***************************************************************************)

\* the indices a..b in increasing order
Idx(a, b) == [k \in 1..(IF b >= a THEN b - a + 1 ELSE 0) |-> a + k - 1]

\* the indices of a..b that belong to the set S, in increasing order
Positions(a, b, S) == SelectSeq(Idx(a, b), LAMBDA k : k \in S)

\* the first index of a..b that belongs to S, 0 when there is none
FirstPos(a, b, S) ==
    LET ps == Positions(a, b, S) IN IF ps = <<>> THEN 0 ELSE ps[1]

\* s[a..b] as a string (empty when b < a)
Slice(s, a, b) == IF b < a THEN <<>> ELSE SubSeq(s, a, b)

\* tok occurs in s at index i, compared exactly
MatchAt(s, i, tok) ==
    /\ i >= 1
    /\ i + Len(tok) - 1 <= Len(s)
    /\ \A k \in 1..Len(tok) : s[i + k - 1] = tok[k]

\* tok occurs in s at index i, compared as re.IGNORECASE compares
MatchAtCI(s, i, tok) ==
    /\ i >= 1
    /\ i + Len(tok) - 1 <= Len(s)
    /\ \A k \in 1..Len(tok) : Lower(s[i + k - 1]) = Lower(tok[k])

\* str.upper
str_upper(s) == [k \in 1..Len(s) |-> Upper(s[k])]

\* tok in s
Contains(s, tok) == \E i \in 1..Len(s) : MatchAt(s, i, tok)

\* str.find from index a: first exact occurrence, 0 when there is none
Find(s, a, tok) == FirstPos(a, Len(s), {k \in a..Len(s) : MatchAt(s, k, tok)})

\* the first occurrence a regular expression scan with re.IGNORECASE finds
FindCI(s, a, tok) ==
    FirstPos(a, Len(s), {k \in a..Len(s) : MatchAtCI(s, k, tok)})

\* str.strip
str_strip(s) ==
    LET ns == Positions(1, Len(s), {k \in 1..Len(s) : ~IsSpace(s[k])})
    IN  IF ns = <<>> THEN <<>> ELSE SubSeq(s, ns[1], ns[Len(ns)])

\* str.split('\n')
str_split_nl(s) ==
    LET nl == Positions(1, Len(s), {k \in 1..Len(s) : s[k] = 10})
        lo(k) == IF k = 1 THEN 1 ELSE nl[k - 1] + 1
        hi(k) == IF k = Len(nl) + 1 THEN Len(s) ELSE nl[k] - 1
    IN  [k \in 1..(Len(nl) + 1) |-> Slice(s, lo(k), hi(k))]

\* re.sub(r'\s+', ' ', s): every maximal run of whitespace becomes one space
re_sub_ws(s) ==
    LET keep == Positions(1, Len(s),
                    {k \in 1..Len(s) :
                        ~IsSpace(s[k]) \/ k = 1 \/ ~IsSpace(s[k - 1])})
    IN  [k \in 1..Len(keep) |-> IF IsSpace(s[keep[k]]) THEN 32 ELSE s[keep[k]]]

\* a variant of str_replace: str.replace(old, new, 1), only the first
\* occurrence is replaced
str_replace_first(s, old, new) ==
    LET p == Find(s, 1, old)
    IN  IF p = 0 THEN s
        ELSE Slice(s, 1, p - 1) \o new \o Slice(s, p + Len(old), Len(s))

\* str.replace(old, new) for a two-character old whose characters differ
\* (its occurrences cannot overlap) and a one-character new
str_replace(s, old, new) ==
    LET hit(i) == i >= 1 /\ MatchAt(s, i, old)
        keep == Positions(1, Len(s), {k \in 1..Len(s) : ~hit(k - 1)})
    IN  [k \in 1..Len(keep) |-> IF hit(keep[k]) THEN new[1] ELSE s[keep[k]]]

\* sep.join(lines)
RECURSIVE str_join(_, _)
str_join(sep, lines) ==
    IF lines = <<>> THEN <<>>
    ELSE IF Len(lines) = 1 THEN lines[1]
    ELSE lines[1] \o sep \o str_join(sep, Tail(lines))

(***************************************************************************)
(* Literals of the source                                                  *)
(***************************************************************************)

\* 'Baugesuchspublikation'
tok_Baugesuchspublikation ==
    <<66, 97, 117, 103, 101, 115, 117, 99, 104, 115, 112, 117, 98, 108,
      105, 107, 97, 116, 105, 111, 110>>

\* 'BAUVERWALTUNG'
tok_BAUVERWALTUNG ==
    <<66, 65, 85, 86, 69, 82, 87, 65, 76, 84, 85, 78, 71>>

\* 'BAUVERWALTUNGW\xdcRENLOS'
tok_BAUVERWALTUNGWURENLOS ==
    <<66, 65, 85, 86, 69, 82, 87, 65, 76, 84, 85, 78, 71, 87, 220, 82, 69,
      78, 76, 79, 83>>

\* 'renlos'
tok_renlos ==
    <<114, 101, 110, 108, 111, 115>>

\* 'BaugesuchNr'
tok_BaugesuchNr ==
    <<66, 97, 117, 103, 101, 115, 117, 99, 104, 78, 114>>

\* 'Bauherrschaft'
tok_Bauherrschaft ==
    <<66, 97, 117, 104, 101, 114, 114, 115, 99, 104, 97, 102, 116>>

\* 'Bauvorhaben'
tok_Bauvorhaben ==
    <<66, 97, 117, 118, 111, 114, 104, 97, 98, 101, 110>>

\* 'Lage'
tok_Lage ==
    <<76, 97, 103, 101>>

\* 'Zone'
tok_Zone ==
    <<90, 111, 110, 101>>

\* 'Zusatzgesuch'
tok_Zusatzgesuch ==
    <<90, 117, 115, 97, 116, 122, 103, 101, 115, 117, 99, 104>>

\* 'Gesuchsauflage'
tok_Gesuchsauflage ==
    <<71, 101, 115, 117, 99, 104, 115, 97, 117, 102, 108, 97, 103, 101>>

\* '...'
tok_ellipsis ==
    <<46, 46, 46>>

\* ','
str_comma ==
    <<44>>

\* ' '
str_space ==
    <<32>>

\* a header token followed by ':'
Colon(tok) == tok \o <<58>>

\* the length limit of the 'others' value
MaxOthersLen == 500

\* the replacement table of parse_baugesuch, in the order it is applied:
\* (A~ is U+00C3)  A~ U+0153 -> U+00DC,  A~ U+00A4 -> U+00E4,
\* A~ U+00B6 -> U+00F6,  A~ U+2013 -> U+00D6,  A~ U+201E -> U+00C4,
\* A~ U+00A9 -> U+00E9,  A~ U+00A8 -> U+00E8,  A~ ' ' -> U+00E0
MojibakeTable ==
    << <<<<195, 339>>, <<220>>>>, <<<<195, 164>>, <<228>>>>,
       <<<<195, 182>>, <<246>>>>, <<<<195, 8211>>, <<214>>>>,
       <<<<195, 8222>>, <<196>>>>, <<<<195, 169>>, <<233>>>>,
       <<<<195, 168>>, <<232>>>>, <<<<195, 32>>, <<224>>>> >>

(***************************************************************************)
(* find_baugesuch_sections                                                 *)
(***************************************************************************)

\* the start indices of the matches of re.split's pattern, in text order; the
\* token has no border, so its occurrences never overlap and the scan finds
\* every one of them
HeaderStarts(text) ==
    Positions(1, Len(text),
              {k \in 1..Len(text) :
                  MatchAtCI(text, k, tok_Baugesuchspublikation)})

\* re.split(r'(Baugesuchspublikation)', text, flags=re.IGNORECASE):
\* parts[1] is the text before the first match, parts[2k] the k-th matched
\* text and parts[2k+1] the text between the k-th match and the next
re_split(text) ==
    LET hs == HeaderStarts(text)
        n == Len(hs)
        w == Len(tok_Baugesuchspublikation)
        stop(k) == IF k = n THEN Len(text) ELSE hs[k + 1] - 1
    IN  [j \in 1..(2 * n + 1) |->
            IF j = 1 THEN Slice(text, 1, IF n = 0 THEN Len(text) ELSE hs[1] - 1)
            ELSE IF j % 2 = 0 THEN SubSeq(text, hs[j \div 2], hs[j \div 2] + w - 1)
            ELSE Slice(text, hs[(j - 1) \div 2] + w, stop((j - 1) \div 2))]

\* re.search(r'W[uU-umlaut u]renlos', section, re.IGNORECASE)
locality_match(section) ==
    \E i \in 1..Len(section) :
        /\ i + 7 <= Len(section)
        /\ Lower(section[i]) = 119
        /\ Lower(section[i + 1]) \in {252, 117}
        /\ MatchAtCI(section, i + 2, tok_renlos)

\* section.split('BAUVERWALTUNG')[0]
before_BAUVERWALTUNG(section) ==
    LET p == Find(section, 1, tok_BAUVERWALTUNG)
    IN  IF p = 0 THEN section ELSE Slice(section, 1, p - 1)

\* the footer cut
truncate_footer(section) ==
    IF Contains(str_upper(section), tok_BAUVERWALTUNG)
    THEN before_BAUVERWALTUNG(section) \o tok_BAUVERWALTUNGWURENLOS
    ELSE section

\* the piece the loop builds at (1-based) index j of parts
piece_at(parts, j) == parts[j] \o parts[j + 1]

\* a variant of kept_indices: the locality test is left out
kept_indices_unfiltered(parts) ==
    Positions(1, Len(parts),
              {j \in 1..Len(parts) : j % 2 = 0 /\ j + 1 <= Len(parts)})

\* a variant of kept_indices: range(1, len(parts)), every part starts a piece
kept_indices_every_part(parts) ==
    Positions(1, Len(parts),
              {j \in 1..Len(parts) :
                  /\ j >= 2
                  /\ j + 1 <= Len(parts)
                  /\ locality_match(piece_at(parts, j))})

\* the loop indices whose piece is appended: range(1, len(parts), 2) with
\* i+1 < len(parts), and the locality test
kept_indices(parts) ==
    Positions(1, Len(parts),
              {j \in 1..Len(parts) :
                  /\ j % 2 = 0
                  /\ j + 1 <= Len(parts)
                  /\ locality_match(piece_at(parts, j))})

find_baugesuch_sections(text) ==
    LET parts == re_split(text)
        js == kept_indices(parts)
    IN  [k \in 1..Len(js) |-> truncate_footer(piece_at(parts, js[k]))]

(***************************************************************************)
(* parse_baugesuch                                                         *)
(***************************************************************************)

\* the chain of str.replace calls on the section
RECURSIVE replace_chain(_, _)
replace_chain(s, table) ==
    IF table = <<>> THEN s
    ELSE replace_chain(str_replace(s, table[1][1], table[1][2]), Tail(table))

fix_encoding(section) == replace_chain(section, MojibakeTable)

\* a dict with no key
EmptyDict == [k \in {} |-> <<>>]

\* index after an optional character c at index p
SkipOpt(s, p, c) == IF p <= Len(s) /\ s[p] = c THEN p + 1 ELSE p

\* index after the whitespace run that starts at index p (greedy \s*)
SkipSpace(s, p) ==
    LET q == FirstPos(p, Len(s), {k \in p..Len(s) : ~IsSpace(s[k])})
    IN  IF q = 0 THEN Len(s) + 1 ELSE q

\* the end of a lazy (.*?) that starts at index p and is followed by the
\* lookahead (?=term|$) under re.DOTALL without re.MULTILINE: the first index
\* at which term matches, or the end of the string, or a final newline
LazyEnd(s, p, term) ==
    LET q == FirstPos(p, Len(s),
                 {k \in p..Len(s) :
                     MatchAtCI(s, k, term) \/ (k = Len(s) /\ s[k] = 10)})
    IN  IF q = 0 THEN Len(s) + 1 ELSE q

\* re.search(header ':?\s*(.*?)(?=term|$)', s, re.IGNORECASE | re.DOTALL):
\* whether it matched, and group(1)
re_capture(s, header, term) ==
    LET h == FindCI(s, 1, header)
        p == SkipSpace(s, SkipOpt(s, h + Len(header), 58))
        e == LazyEnd(s, p, term)
    IN  IF h = 0 THEN [matched |-> FALSE, group1 |-> <<>>]
        ELSE [matched |-> TRUE, group1 |-> Slice(s, p, e - 1)]

\* the line loop: the stripped lines of text up to the first line that is
\* empty or begins with one of the stop prefixes
accept_lines(text, stops) ==
    LET raw == str_split_nl(text)
        line == [k \in 1..Len(raw) |-> str_strip(raw[k])]
        rejected(k) ==
            line[k] = <<>> \/ \E t \in stops : MatchAtCI(line[k], 1, t)
        r == FirstPos(1, Len(raw), {k \in 1..Len(raw) : rejected(k)})
    IN  IF r = 0 THEN line ELSE Slice(line, 1, r - 1)

\* re.search(r'BaugesuchNr\.?:?\s*(\d+)', section, re.IGNORECASE): the first
\* occurrence of the label that digits follow; [start, stop] of group(1)
nr_digits_at(s, i) ==
    LET p == SkipSpace(s, SkipOpt(s, SkipOpt(s, i + Len(tok_BaugesuchNr), 46), 58))
        q == FirstPos(p, Len(s), {k \in p..Len(s) : ~IsDigit(s[k])})
    IN  [start |-> p, stop |-> IF q = 0 THEN Len(s) ELSE q - 1]

nr_block(section) ==
    LET ok(i) == /\ MatchAtCI(section, i, tok_BaugesuchNr)
                 /\ nr_digits_at(section, i).stop >= nr_digits_at(section, i).start
        i == FirstPos(1, Len(section), {k \in 1..Len(section) : ok(k)})
        g == nr_digits_at(section, i)
    IN  IF i = 0 THEN EmptyDict
        ELSE "Baugesuch_Nr" :> SubSeq(section, g.start, g.stop)

\* the accepted lines of one line-accumulated field, given its header, the
\* terminator of its capture and the stop prefixes of its line loop; empty
\* when the header is absent
field_lines(section, header, term, stops) ==
    LET m == re_capture(section, header, term)
    IN  IF m.matched THEN accept_lines(str_strip(m.group1), stops) ELSE <<>>

bauherr_block(section) ==
    LET lines == field_lines(section, tok_Bauherrschaft, Colon(tok_Bauvorhaben),
                             {Colon(tok_Bauvorhaben), Colon(tok_Lage),
                              Colon(tok_Zone), Colon(tok_Zusatzgesuch)})
    IN  IF lines # <<>> THEN "Bauherrschaft" :> str_join(str_comma, lines)
        ELSE EmptyDict

bauvor_block(section) ==
    LET lines == field_lines(section, tok_Bauvorhaben, Colon(tok_Lage),
                             {Colon(tok_Lage), Colon(tok_Zone),
                              Colon(tok_Bauherrschaft)})
    IN  IF lines # <<>> THEN "Bauvorhaben" :> str_join(str_space, lines)
        ELSE EmptyDict

lage_block(section) ==
    LET lines == field_lines(section, tok_Lage, Colon(tok_Zone),
                             {Colon(tok_Zone), Colon(tok_Zusatzgesuch)})
    IN  IF lines # <<>> THEN "Lage" :> str_join(str_comma, lines)
        ELSE EmptyDict

\* the accepted lines of the Zone field
zone_lines(section) ==
    field_lines(section, tok_Zone, Colon(tok_Zusatzgesuch),
                {Colon(tok_Zusatzgesuch), Colon(tok_Gesuchsauflage)})

\* a variant of zone_block: the accepted lines are joined as for the other
\* fields instead of keeping lines[0]
zone_block_joined(section) ==
    LET lines == zone_lines(section)
    IN  IF lines # <<>> THEN "Zone" :> str_join(str_comma, lines)
        ELSE EmptyDict

zone_block(section) ==
    LET lines == zone_lines(section)
    IN  IF lines # <<>> THEN "Zone" :> lines[1] ELSE EmptyDict

zusatz_block(section) ==
    LET lines == field_lines(section, tok_Zusatzgesuch, tok_Gesuchsauflage,
                             {tok_Gesuchsauflage})
    IN  IF lines # <<>> THEN "Zusatzgesuch" :> str_join(str_comma, lines)
        ELSE EmptyDict

\* a variant of limit_length: the comparison is >= instead of >
limit_length_at_limit(others) ==
    IF Len(others) >= MaxOthersLen
    THEN SubSeq(others, 1, MaxOthersLen) \o tok_ellipsis
    ELSE others

\* others[:500] + '...' when len(others) > 500
limit_length(others) ==
    IF Len(others) > MaxOthersLen
    THEN SubSeq(others, 1, MaxOthersLen) \o tok_ellipsis
    ELSE others

\* re.search(r'(Gesuchsauflage.*?)(?=BAUVERWALTUNG|$)', section,
\*           re.IGNORECASE | re.DOTALL), stripped and whitespace-collapsed
others_text(section) ==
    LET g == FindCI(section, 1, tok_Gesuchsauflage)
        e == LazyEnd(section, g + Len(tok_Gesuchsauflage), tok_BAUVERWALTUNG)
    IN  re_sub_ws(str_strip(Slice(section, g, e - 1)))

others_block(section) ==
    IF FindCI(section, 1, tok_Gesuchsauflage) = 0 THEN EmptyDict
    ELSE "others" :> limit_length(others_text(section))

parse_baugesuch(section0) ==
    LET section == fix_encoding(section0)
    IN  nr_block(section) @@ bauherr_block(section) @@ bauvor_block(section)
        @@ lage_block(section) @@ zone_block(section)
        @@ zusatz_block(section) @@ others_block(section)

\* a variant of any_values: every record is kept
any_values_always(data) == TRUE

\* any(data.values()): some stored value is a non-empty string
any_values(data) == \E k \in DOMAIN data : data[k] # <<>>

(***************************************************************************)
(* Inputs: the page texts the pipeline is run on                           *)
(***************************************************************************)

\* 'BaugesuchNr.: 123'
line_Nr ==
    <<66, 97, 117, 103, 101, 115, 117, 99, 104, 78, 114, 46, 58, 32, 49,
      50, 51>>

\* 'Bauherrschaft: A. Muster'
line_Bauherrschaft ==
    <<66, 97, 117, 104, 101, 114, 114, 115, 99, 104, 97, 102, 116, 58, 32,
      65, 46, 32, 77, 117, 115, 116, 101, 114>>

\* 'Bauvorhaben: Neubau'
line_Bauvorhaben ==
    <<66, 97, 117, 118, 111, 114, 104, 97, 98, 101, 110, 58, 32, 78, 101,
      117, 98, 97, 117>>

\* 'Lage: Musterstrasse 1, W\xfcrenlos'
line_Lage ==
    <<76, 97, 103, 101, 58, 32, 77, 117, 115, 116, 101, 114, 115, 116, 114,
      97, 115, 115, 101, 32, 49, 44, 32, 87, 252, 114, 101, 110, 108, 111,
      115>>

\* 'Zone: W2'
line_Zone ==
    <<90, 111, 110, 101, 58, 32, 87, 50>>

\* 'Zusatzgesuch: Ja'
line_Zusatzgesuch ==
    <<90, 117, 115, 97, 116, 122, 103, 101, 115, 117, 99, 104, 58, 32, 74,
      97>>

\* 'Gesuchsauflage bis 30 Tage'
line_Gesuchsauflage ==
    <<71, 101, 115, 117, 99, 104, 115, 97, 117, 102, 108, 97, 103, 101, 32,
      98, 105, 115, 32, 51, 48, 32, 84, 97, 103, 101>>

\* 'mit  Garage'
line_Continuation ==
    <<109, 105, 116, 32, 32, 71, 97, 114, 97, 103, 101>>

\* 'Lage: Dorfweg 2, W\xc3\u0153renlos'
line_LageMojibake ==
    <<76, 97, 103, 101, 58, 32, 68, 111, 114, 102, 119, 101, 103, 32, 50,
      44, 32, 87, 195, 339, 114, 101, 110, 108, 111, 115>>

\* 'Lage: Hauptstrasse 3, Baden'
line_LageBaden ==
    <<76, 97, 103, 101, 58, 32, 72, 97, 117, 112, 116, 115, 116, 114, 97,
      115, 115, 101, 32, 51, 44, 32, 66, 97, 100, 101, 110>>

\* 'Bauverwaltung W\xfcrenlos'
line_FooterMixed ==
    <<66, 97, 117, 118, 101, 114, 119, 97, 108, 116, 117, 110, 103, 32, 87,
      252, 114, 101, 110, 108, 111, 115>>

\* 'Bauvorhaben: Umbau Lage: Dorfweg 2'
line_BauvorhabenLage ==
    <<66, 97, 117, 118, 111, 114, 104, 97, 98, 101, 110, 58, 32, 85, 109,
      98, 97, 117, 32, 76, 97, 103, 101, 58, 32, 68, 111, 114, 102, 119,
      101, 103, 32, 50>>

\* 'Inserat'
line_Inserat ==
    <<73, 110, 115, 101, 114, 97, 116>>

\* 'Gemeinde W\xfcrenlos'
line_Gemeinde ==
    <<71, 101, 109, 101, 105, 110, 100, 101, 32, 87, 252, 114, 101, 110,
      108, 111, 115>>

\* 'BAUGESUCHSPUBLIKATION'
tok_HeaderUpper ==
    <<66, 65, 85, 71, 69, 83, 85, 67, 72, 83, 80, 85, 66, 76, 73, 75, 65,
      84, 73, 79, 78>>

\* '\n'
str_nl ==
    <<10>>

\* the lines a section body is drawn from
LinePool ==
    <<line_Nr, line_Bauherrschaft, line_Bauvorhaben, line_Lage, line_Zone,
      line_Zusatzgesuch, line_Gesuchsauflage, tok_BAUVERWALTUNGWURENLOS,
      line_Continuation, <<>>>>

\* the most lines of a drawn body
MaxLines == 3

\* the most pieces of a drawn multi-piece page
MaxPieces == 2

\* how far below and above MaxOthersLen the long catch-all texts reach
Slack == 2

\* the longest input of the replacement chain checked on its own
MaxNormLen == 4

\* how many times the replacement chain is applied to one input
MaxNormPasses == 2

\* the concatenation of the strings of a sequence
RECURSIVE Concat(_)
Concat(ss) == IF ss = <<>> THEN <<>> ELSE ss[1] \o Concat(Tail(ss))

\* the sequences over S of length at most n
SeqsUpTo(S, n) == UNION {[1..m -> S] : m \in 0..n}

\* each line of ls followed by a newline
Lines(ls) == Concat([k \in 1..Len(ls) |-> ls[k] \o str_nl])

\* the 8-line sample page of the specification (no final newline)
Scenario1 ==
    tok_Baugesuchspublikation \o str_nl
    \o Lines(<<line_Nr, line_Bauherrschaft, line_Bauvorhaben, line_Lage,
               line_Zone, line_Gesuchsauflage>>)
    \o tok_BAUVERWALTUNGWURENLOS

\* one header and a body of at most MaxLines lines of the pool
SinglePages ==
    {tok_Baugesuchspublikation \o str_nl
        \o Lines([k \in 1..Len(b) |-> LinePool[b[k]]]) :
     b \in SeqsUpTo(1..Len(LinePool), MaxLines)}

\* pieces of multi-piece pages: text before the first header, announcements
\* of the target and of another locality, with either spelling of the header
PiecePool ==
    {line_Inserat \o str_nl,
     tok_Baugesuchspublikation \o str_nl
        \o Lines(<<line_Nr, line_Lage, line_Gesuchsauflage,
                   tok_BAUVERWALTUNGWURENLOS, line_Inserat>>),
     tok_HeaderUpper \o str_nl \o Lines(<<line_Bauherrschaft, line_Gemeinde>>),
     tok_Baugesuchspublikation \o str_nl \o Lines(<<line_Nr, line_LageBaden>>),
     tok_Baugesuchspublikation \o str_space \o line_Gemeinde \o str_nl,
     tok_Baugesuchspublikation \o str_nl \o Lines(<<line_LageMojibake>>),
     tok_Baugesuchspublikation \o str_nl
        \o Lines(<<line_Lage, line_FooterMixed, line_Inserat>>),
     tok_Baugesuchspublikation \o str_nl
        \o Lines(<<line_Bauherrschaft, line_BauvorhabenLage, line_Gemeinde>>)}

MultiPages == {Concat(ps) : ps \in SeqsUpTo(PiecePool, MaxPieces)}

\* a catch-all text whose whitespace-collapsed length is n: the label, a gap
\* and a filler
LongOthers(gap, n) ==
    tok_Gesuchsauflage \o gap
    \o [k \in 1..(n - Len(tok_Gesuchsauflage) - 1) |-> 120]

\* pages whose catch-all text is within Slack of the length limit, with a
\* one-space gap and with a longer whitespace run, with and without a footer
LongPages ==
    {tok_Baugesuchspublikation \o str_nl \o line_Gemeinde \o str_nl
        \o LongOthers(gap, n) \o tail :
     gap \in {str_space, <<32, 10, 32>>},
     n \in (MaxOthersLen - Slack)..(MaxOthersLen + Slack),
     tail \in {<<>>, str_nl, str_nl \o tok_BAUVERWALTUNGWURENLOS \o str_nl}}

Pages == {Scenario1} \cup SinglePages \cup MultiPages \cup LongPages

\* the characters the replacement chain is checked over: U+00C3, the second
\* character of each of the eight artifacts, the output U+00DC and 'x'
NormAlphabet == {195, 339, 164, 182, 8211, 8222, 169, 168, 32, 220, 120}

NormInputs == SeqsUpTo(NormAlphabet, MaxNormLen)

(***************************************************************************)
(* State                                                                   *)
(***************************************************************************)

VARIABLES
    page_text,  \* main: the extracted text
    sections,   \* main: the result of find_baugesuch_sections
    i,          \* main: the loop counter of enumerate(sections, 1); 0 before
    data,       \* main: the record of the section parsed last
    results,    \* main: the records kept
    pc,         \* main: "find", "loop" or "done"
    norm_in,    \* the input of the replacement chain
    norm_text,  \* the string after the applications so far
    norm_prev,  \* its value before the last application
    norm_pass,  \* the number of applications so far
    dl_dir,     \* the download directory: file name -> modification time
    dl_before,  \* the file names in the directory when the control is clicked
    dl_chrome,  \* the browser's download: "idle", "none", "partial", "complete"
    dl_time,    \* time.time(), in seconds
    dl_start,   \* wait_for_download: start_time
    dl_pdfs,    \* wait_for_download: pdf_files of the last poll
    dl_result,  \* wait_for_download: the value returned
    dl_pc       \* download_pdf: "click", "clicked", "poll", "sleep", "returned"

vars ==
    <<page_text, sections, i, data, results, pc, norm_in, norm_text,
      norm_prev, norm_pass, dl_dir, dl_before, dl_chrome, dl_time, dl_start,
      dl_pdfs, dl_result, dl_pc>>

main_vars == <<page_text, sections, i, data, results, pc>>

norm_vars == <<norm_in, norm_text, norm_prev, norm_pass>>

dl_vars ==
    <<dl_dir, dl_before, dl_chrome, dl_time, dl_start, dl_pdfs, dl_result,
      dl_pc>>

\* the return value None (no file has the empty name)
None == <<>>

\* the download variables while no download is modelled
DownloadIdle ==
    /\ dl_dir = EmptyDict
    /\ dl_before = {}
    /\ dl_chrome = "idle"
    /\ dl_time = 0
    /\ dl_start = 0
    /\ dl_pdfs = {}
    /\ dl_result = None
    /\ dl_pc = "returned"

(***************************************************************************)
(* main, step 4: segment the page, parse each section, keep the records    *)
(***************************************************************************)

Init ==
    /\ page_text \in Pages
    /\ sections = <<>>
    /\ i = 0
    /\ data = EmptyDict
    /\ results = <<>>
    /\ pc = "find"
    /\ norm_in = <<>>
    /\ norm_text = <<>>
    /\ norm_prev = <<>>
    /\ norm_pass = 0
    /\ DownloadIdle

\* sections = find_baugesuch_sections(page_text); results = []
FindSections ==
    /\ pc = "find"
    /\ sections' = find_baugesuch_sections(page_text)
    /\ results' = <<>>
    /\ pc' = "loop"
    /\ UNCHANGED <<page_text, i, data, norm_vars, dl_vars>>

\* one iteration of the loop: parse the next section and keep its record
\* when any of its values is non-empty
ProcessSection ==
    /\ pc = "loop"
    /\ i < Len(sections)
    /\ i' = i + 1
    /\ data' = parse_baugesuch(sections[i + 1])
    /\ results' = IF any_values(data') THEN Append(results, data') ELSE results
    /\ UNCHANGED <<page_text, sections, pc, norm_vars, dl_vars>>

\* the loop is exhausted
LoopEnd ==
    /\ pc = "loop"
    /\ i = Len(sections)
    /\ pc' = "done"
    /\ UNCHANGED <<page_text, sections, i, data, results, norm_vars, dl_vars>>

Next == FindSections \/ ProcessSection \/ LoopEnd

Spec == Init /\ [][Next]_vars

(***************************************************************************)
(* The replacement chain applied repeatedly to one string                  *)
(***************************************************************************)

InitNorm ==
    /\ norm_in \in NormInputs
    /\ norm_text = norm_in
    /\ norm_prev = <<>>
    /\ norm_pass = 0
    /\ page_text = <<>>
    /\ sections = <<>>
    /\ i = 0
    /\ data = EmptyDict
    /\ results = <<>>
    /\ pc = "done"
    /\ DownloadIdle

Normalize ==
    /\ norm_pass < MaxNormPasses
    /\ norm_prev' = norm_text
    /\ norm_text' = fix_encoding(norm_text)
    /\ norm_pass' = norm_pass + 1
    /\ UNCHANGED <<main_vars, norm_in, dl_vars>>

NextNorm == Normalize

SpecNorm == InitNorm /\ [][NextNorm]_vars

(***************************************************************************)
(* download_pdf and wait_for_download: the click and the polling loop      *)
(***************************************************************************)

\* 'limmatwelle_22_mai.pdf'
name_PDF_FILENAME ==
    <<108, 105, 109, 109, 97, 116, 119, 101, 108, 108, 101, 95, 50, 50, 95,
      109, 97, 105, 46, 112, 100, 102>>

\* 'page_12_13_raw.txt'
name_raw_text ==
    <<112, 97, 103, 101, 95, 49, 50, 95, 49, 51, 95, 114, 97, 119, 46, 116,
      120, 116>>

\* 'baugesuch_output.json'
name_output_json ==
    <<98, 97, 117, 103, 101, 115, 117, 99, 104, 95, 111, 117, 116, 112,
      117, 116, 46, 106, 115, 111, 110>>

\* 'limmatwelle_2025_woche_21.pdf'
name_download ==
    <<108, 105, 109, 109, 97, 116, 119, 101, 108, 108, 101, 95, 50, 48, 50,
      53, 95, 119, 111, 99, 104, 101, 95, 50, 49, 46, 112, 100, 102>>

\* 'limmatwelle_2025_woche_21.pdf.crdownload'
name_partial ==
    <<108, 105, 109, 109, 97, 116, 119, 101, 108, 108, 101, 95, 50, 48, 50,
      53, 95, 119, 111, 99, 104, 101, 95, 50, 49, 46, 112, 100, 102, 46,
      99, 114, 100, 111, 119, 110, 108, 111, 97, 100>>

\* '.pdf'
suffix_pdf ==
    <<46, 112, 100, 102>>

\* '.crdownload'
suffix_crdownload ==
    <<46, 99, 114, 100, 111, 119, 110, 108, 111, 97, 100>>

\* f.endswith(suffix)
endswith(f, suffix) ==
    /\ Len(f) >= Len(suffix)
    /\ MatchAt(f, Len(f) - Len(suffix) + 1, suffix)

\* download_pdf(..., timeout: int = 60), passed on to wait_for_download
Timeout == 60

\* the files main leaves in DOWNLOAD_DIR at the end of an earlier run
EarlierRunFiles == {name_PDF_FILENAME, name_raw_text, name_output_json}

\* the directory before the click: any of the files of an earlier run, each
\* modified before this run started
InitialDirs == {[f \in S |-> 0] : S \in SUBSET EarlierRunFiles}

\* the directory with file f written at time t
WithFile(dir, f, t) ==
    [g \in DOMAIN dir \cup {f} |-> IF g = f THEN t ELSE dir[g]]

\* the directory without file f
WithoutFile(dir, f) == [g \in DOMAIN dir \ {f} |-> dir[g]]

\* pdf_files = [f for f in files
\*              if f.endswith('.pdf') and not f.endswith('.crdownload')]
pdf_files_of(files) ==
    {f \in files : endswith(f, suffix_pdf) /\ ~endswith(f, suffix_crdownload)}

\* pdf_files.sort(key=getmtime, reverse=True); pdf_files[0]: a file of the
\* latest modification time (os.listdir fixes no order among equal times)
most_recent(dir, pdf_files) ==
    {f \in pdf_files : \A g \in pdf_files : dir[g] <= dir[f]}

InitDownload ==
    /\ page_text = <<>>
    /\ sections = <<>>
    /\ i = 0
    /\ data = EmptyDict
    /\ results = <<>>
    /\ pc = "done"
    /\ norm_in = <<>>
    /\ norm_text = <<>>
    /\ norm_prev = <<>>
    /\ norm_pass = 0
    /\ dl_dir \in InitialDirs
    /\ dl_before = {}
    /\ dl_chrome = "idle"
    /\ dl_time = 1
    /\ dl_start = 0
    /\ dl_pdfs = {}
    /\ dl_result = None
    /\ dl_pc = "click"

\* download_pdf: the click on the download control. A click that goes
\* through is followed by time.sleep(2) and may start a download; when both
\* click attempts raise, no download starts and the wait begins at once.
Click ==
    /\ dl_pc = "click"
    /\ dl_before' = DOMAIN dl_dir
    /\ \E clicked \in BOOLEAN :
           /\ dl_chrome' = IF clicked THEN "pending" ELSE "none"
           /\ dl_time' = IF clicked THEN dl_time + 2 ELSE dl_time
    /\ dl_pc' = "clicked"
    /\ UNCHANGED <<main_vars, norm_vars, dl_dir, dl_start, dl_pdfs, dl_result>>

\* the browser starts writing the download as a '.crdownload' file
ChromeStart ==
    /\ dl_chrome = "pending"
    /\ dl_dir' = WithFile(dl_dir, name_partial, dl_time)
    /\ dl_chrome' = "partial"
    /\ UNCHANGED <<main_vars, norm_vars, dl_before, dl_time, dl_start,
                   dl_pdfs, dl_result, dl_pc>>

\* the browser completes the download: the partial file becomes the PDF
ChromeFinish ==
    /\ dl_chrome = "partial"
    /\ dl_dir' = WithFile(WithoutFile(dl_dir, name_partial), name_download,
                          dl_time)
    /\ dl_chrome' = "complete"
    /\ UNCHANGED <<main_vars, norm_vars, dl_before, dl_time, dl_start,
                   dl_pdfs, dl_result, dl_pc>>

\* wait_for_download: start_time = time.time()
WaitStart ==
    /\ dl_pc = "clicked"
    /\ dl_start' = dl_time
    /\ dl_pc' = "poll"
    /\ UNCHANGED <<main_vars, norm_vars, dl_dir, dl_before, dl_chrome,
                   dl_time, dl_pdfs, dl_result>>

\* one pass of the loop body up to the return or the sleep
Poll ==
    /\ dl_pc = "poll"
    /\ dl_time - dl_start < Timeout
    /\ LET files == DOMAIN dl_dir
           pdf_files == pdf_files_of(files)
       IN  /\ dl_pdfs' = pdf_files
           /\ IF pdf_files # {}
              THEN /\ dl_result' \in most_recent(dl_dir, pdf_files)
                   /\ dl_pc' = "returned"
              ELSE /\ dl_result' = dl_result
                   /\ dl_pc' = "sleep"
    /\ UNCHANGED <<main_vars, norm_vars, dl_dir, dl_before, dl_chrome,
                   dl_time, dl_start>>

\* time.sleep(1)
Sleep ==
    /\ dl_pc = "sleep"
    /\ dl_time' = dl_time + 1
    /\ dl_pc' = "poll"
    /\ UNCHANGED <<main_vars, norm_vars, dl_dir, dl_before, dl_chrome,
                   dl_start, dl_pdfs, dl_result>>

\* the loop condition fails: return None
TimedOut ==
    /\ dl_pc = "poll"
    /\ ~(dl_time - dl_start < Timeout)
    /\ dl_result' = None
    /\ dl_pc' = "returned"
    /\ UNCHANGED <<main_vars, norm_vars, dl_dir, dl_before, dl_chrome,
                   dl_time, dl_start, dl_pdfs>>

NextDownload ==
    \/ Click
    \/ ChromeStart
    \/ ChromeFinish
    \/ WaitStart
    \/ Poll
    \/ Sleep
    \/ TimedOut

SpecDownload == InitDownload /\ [][NextDownload]_vars

(***************************************************************************)
(* Claims                                                                  *)
(***************************************************************************)

\* '123'
val_123 ==
    <<49, 50, 51>>

\* 'A. Muster'
val_AMuster ==
    <<65, 46, 32, 77, 117, 115, 116, 101, 114>>

\* 'Neubau'
val_Neubau ==
    <<78, 101, 117, 98, 97, 117>>

\* 'Musterstrasse 1, W\xfcrenlos'
val_Musterstrasse ==
    <<77, 117, 115, 116, 101, 114, 115, 116, 114, 97, 115, 115, 101, 32,
      49, 44, 32, 87, 252, 114, 101, 110, 108, 111, 115>>

\* 'W2'
val_W2 ==
    <<87, 50>>

\* 'Gesuchsauflage bis 30 Tage'
val_Gesuchsauflage30 ==
    <<71, 101, 115, 117, 99, 104, 115, 97, 117, 102, 108, 97, 103, 101, 32,
      98, 105, 115, 32, 51, 48, 32, 84, 97, 103, 101>>

\* a section has been parsed and `data` is its record
Parsed == pc = "loop" /\ i >= 1

\* the record the specification gives for the sample page
Scenario1Record ==
    [Baugesuch_Nr |-> val_123, Bauherrschaft |-> val_AMuster,
     Bauvorhaben |-> val_Neubau, Lage |-> val_Musterstrasse, Zone |-> val_W2,
     others |-> val_Gesuchsauflage30]

\* C1: on the 8-line sample page the pipeline ends with exactly one record,
\* which has exactly the six keys Baugesuch_Nr, Bauherrschaft, Bauvorhaben,
\* Lage, Zone and others with the values of the specification, and no
\* Zusatzgesuch key.
C1_Scenario1 ==
    (pc = "done" /\ page_text = Scenario1) =>
        /\ Len(results) = 1
        /\ DOMAIN results[1] =
              {"Baugesuch_Nr", "Bauherrschaft", "Bauvorhaben", "Lage", "Zone",
               "others"}
        /\ results[1] = Scenario1Record

\* C1 witness: the run on the sample page has ended with a record
C1_Witness ==
    pc = "done" /\ page_text = Scenario1 /\ Len(sections) = 1 /\ results # <<>>

\* tok occurs in s, compared without regard to case
ContainsCI(s, tok) == \E k \in 1..Len(s) : MatchAtCI(s, k, tok)

\* the field table of the specification, in table order: the key a field is
\* stored under and its header token; the last entry is the catch-all field
FieldTable ==
    <<[key |-> "Bauherrschaft", header |-> tok_Bauherrschaft],
      [key |-> "Bauvorhaben", header |-> tok_Bauvorhaben],
      [key |-> "Lage", header |-> tok_Lage],
      [key |-> "Zone", header |-> tok_Zone],
      [key |-> "Zusatzgesuch", header |-> tok_Zusatzgesuch],
      [key |-> "others", header |-> tok_Gesuchsauflage]>>

\* the stripped lines of the section parsed last, after the encoding repair
ParsedLines ==
    LET raw == str_split_nl(fix_encoding(sections[i]))
    IN  [k \in 1..Len(raw) |-> str_strip(raw[k])]

\* C2: boundary correctness.  For every two distinct fields A and B of the
\* table: when a line of the section begins with A's header token and the
\* next line begins with B's header token, the value stored for A does not
\* include B's header line.
C2_BoundaryCorrectness ==
    Parsed =>
        LET ls == ParsedLines
            begins(k, f) == MatchAtCI(ls[k], 1, FieldTable[f].header)
        IN  \A k \in 1..(Len(ls) - 1) :
                \A a, b \in 1..Len(FieldTable) :
                    ( /\ a # b
                      /\ FieldTable[a].key \in DOMAIN data
                      /\ begins(k, a)
                      /\ begins(k + 1, b) )
                    => ~Contains(data[FieldTable[a].key], ls[k + 1])

\* C3: no field consumes the text of a later field.  For every field A of
\* the table and every field B defined after it, the value stored for A
\* contains no occurrence of B's header token.
C3_NoLaterFieldText ==
    Parsed =>
        \A a, b \in 1..Len(FieldTable) :
            (a < b /\ FieldTable[a].key \in DOMAIN data)
            => ~ContainsCI(data[FieldTable[a].key], FieldTable[b].header)

\* the pieces of the page: each header occurrence with the text up to the
\* next one
PagePieces ==
    LET parts == re_split(page_text)
    IN  [k \in 1..((Len(parts) - 1) \div 2) |-> piece_at(parts, 2 * k)]

\* C4: mojibake is repaired before the page is segmented.  When a piece of
\* the page holds a Lage line whose locality is written with the sequence
\* U+00C3 U+0153, the run ends with a record whose Lage value contains
\* U+00DC and not that sequence.
C4_MojibakeLocalityRetained ==
    ( /\ pc = "done"
      /\ \E k \in 1..Len(PagePieces) : Contains(PagePieces[k], line_LageMojibake) )
    => \E r \in 1..Len(results) :
          /\ "Lage" \in DOMAIN results[r]
          /\ Contains(results[r]["Lage"], <<220>>)
          /\ ~Contains(results[r]["Lage"], <<195, 339>>)

\* 'w\xfcrenlos'
loc_wuerenlos ==
    <<119, 252, 114, 101, 110, 108, 111, 115>>

\* 'wurenlos'
loc_wurenlos ==
    <<119, 117, 114, 101, 110, 108, 111, 115>>

\* the locality pattern spelled out: either spelling, in any case
LocalityIn(s) == ContainsCI(s, loc_wuerenlos) \/ ContainsCI(s, loc_wurenlos)

\* sec is the first m characters of piece p, alone or followed by the
\* canonical footer, for some m that covers at least the header token
FromPiece(sec, p) ==
    \E m \in Len(tok_Baugesuchspublikation)..Len(p) :
        \/ sec = Slice(p, 1, m)
        \/ sec = Slice(p, 1, m) \o tok_BAUVERWALTUNGWURENLOS

\* C5: locality filter precision.  Every section returned comes from a
\* piece of the page (a header token and the text up to the next one) that
\* contains a match of the locality pattern; when no piece contains one the
\* output is empty and no record is produced.
C5_LocalityPrecision ==
    (pc # "find") =>
        LET ps == PagePieces
        IN  /\ \A k \in 1..Len(sections) :
                  \E j \in 1..Len(ps) :
                      LocalityIn(ps[j]) /\ FromPiece(sections[k], ps[j])
            /\ (\A j \in 1..Len(ps) : ~LocalityIn(ps[j]))
                  => (sections = <<>> /\ results = <<>>)

\* C5 witness: a page of two pieces of which only the second names the
\* locality has been segmented into one section
C5_Witness ==
    /\ pc = "done"
    /\ Len(PagePieces) = 2
    /\ ~LocalityIn(PagePieces[1])
    /\ LocalityIn(PagePieces[2])
    /\ Len(sections) = 1

\* C6: segmentation partition.  With k occurrences of the header token in
\* the page there are at most k sections; the sections can be assigned, in
\* order, to strictly increasing header occurrences so that each section
\* starts at its occurrence and takes its text from the range that ends
\* before the next occurrence (so that no two ranges overlap).
C6_SegmentationPartition ==
    (pc # "find") =>
        LET hs == HeaderStarts(page_text)
            n == Len(sections)
            stop(j) == IF j = Len(hs) THEN Len(page_text) ELSE hs[j + 1] - 1
        IN  /\ n <= Len(hs)
            /\ \E f \in [1..n -> 1..Len(hs)] :
                  /\ \A k, l \in 1..n : k < l => f[k] < f[l]
                  /\ \A k \in 1..n :
                        FromPiece(sections[k],
                                  Slice(page_text, hs[f[k]], stop(f[k])))

\* C6 witness: a page with two header occurrences, the second in upper
\* case, has been segmented into two sections
C6_Witness ==
    /\ pc = "done"
    /\ Len(HeaderStarts(page_text)) = 2
    /\ Len(sections) = 2
    /\ MatchAt(sections[2], 1, tok_HeaderUpper)

\* C7: truncation exactness.  The 'others' value is at most 503 characters
\* long; when the whitespace-collapsed catch-all text is longer than 500
\* characters the value is its first 500 characters followed by '...', and
\* otherwise the value is that text unchanged.
C7_TruncationExactness ==
    (Parsed /\ "others" \in DOMAIN data) =>
        LET t == others_text(fix_encoding(sections[i]))
        IN  /\ Len(data["others"]) <= MaxOthersLen + 3
            /\ Len(t) > MaxOthersLen
                  => data["others"] = SubSeq(t, 1, MaxOthersLen) \o tok_ellipsis
            /\ Len(t) <= MaxOthersLen => data["others"] = t

\* C7 witness: a catch-all text longer than the limit has been stored
\* truncated
C7_Witness ==
    /\ Parsed
    /\ "others" \in DOMAIN data
    /\ Len(others_text(fix_encoding(sections[i]))) > MaxOthersLen
    /\ Len(data["others"]) = MaxOthersLen + 3

\* C8: idempotence of the replacement chain.  Applying the chain to its own
\* output changes nothing.
C8_NormalizeIdempotent == (norm_pass >= 2) => norm_text = norm_prev

\* C8 witness: the chain has been applied twice to U+00C3 U+00C3 U+0153
\* U+00A4, where the output of a substitution stands between a lone U+00C3
\* and the second character of another artifact
C8_Witness ==
    /\ norm_pass = 2
    /\ norm_in = <<195, 195, 339, 164>>
    /\ norm_text = <<195, 220, 164>>

\* C9: record assembly.  The result list holds, in section order, exactly
\* the records of the sections parsed so far that have at least one field;
\* no record of the list is empty and no stored value is the empty string.
C9_RecordAssembly ==
    (pc # "find") =>
        LET recs == [k \in 1..i |-> parse_baugesuch(sections[k])]
        IN  /\ results = SelectSeq(recs, LAMBDA d : DOMAIN d # {})
            /\ \A r \in 1..Len(results) :
                  /\ DOMAIN results[r] # {}
                  /\ \A key \in DOMAIN results[r] : results[r][key] # <<>>

\* C9 witness: of two sections one gave a record and the other, with no
\* field, gave none
C9_Witness == pc = "done" /\ Len(sections) = 2 /\ Len(results) = 1

\* the pieces of the page that match the locality pattern, in page order
MatchingPieces == SelectSeq(PagePieces, locality_match)

\* C10: footer truncation.  Whenever a locality-matching piece contains the
\* terminator token, in any case, its section is the piece cut at the first
\* occurrence of the token, followed by the canonical footer; nothing that
\* followed that occurrence remains.
C10_FooterTruncation ==
    (pc # "find") =>
        LET ps == MatchingPieces
        IN  \A k \in 1..Len(ps) :
                ContainsCI(ps[k], tok_BAUVERWALTUNG) =>
                    /\ k <= Len(sections)
                    /\ sections[k] =
                          Slice(ps[k], 1, FindCI(ps[k], 1, tok_BAUVERWALTUNG) - 1)
                          \o tok_BAUVERWALTUNGWURENLOS

\* a letter of the alphabet of the inputs
IsLetter(c) ==
    \/ (Lower(c) >= 97 /\ Lower(c) <= 122)
    \/ (Lower(c) >= 224 /\ Lower(c) <= 254 /\ Lower(c) # 247)

\* s contains tok as a label: an occurrence, in any case, that does not
\* continue a word
HasLabel(s, tok) ==
    \E k \in 1..Len(s) :
        MatchAtCI(s, k, tok) /\ (k = 1 \/ ~IsLetter(s[k - 1]))

\* C11: missing field.  For every field of the table, when the section
\* contains no header label of the field, the record has no key for it; a
\* section without a 'Lage' label that contains the word 'Gesuchsauflage'
\* gives a record without a 'Lage' key.
C11_MissingFieldNoKey ==
    Parsed =>
        LET section == fix_encoding(sections[i])
        IN  \A f \in 1..Len(FieldTable) :
                ~HasLabel(section, FieldTable[f].header)
                => FieldTable[f].key \notin DOMAIN data

\* the line-accumulated fields with a join policy: key, header token, the
\* terminator of the capture and the separator of the policy
JoinTable ==
    <<[key |-> "Bauherrschaft", header |-> tok_Bauherrschaft,
       term |-> Colon(tok_Bauvorhaben), sep |-> str_comma],
      [key |-> "Bauvorhaben", header |-> tok_Bauvorhaben,
       term |-> Colon(tok_Lage), sep |-> str_space],
      [key |-> "Lage", header |-> tok_Lage,
       term |-> Colon(tok_Zone), sep |-> str_comma],
      [key |-> "Zusatzgesuch", header |-> tok_Zusatzgesuch,
       term |-> tok_Gesuchsauflage, sep |-> str_comma]>>

\* s contains two consecutive whitespace characters
HasWhitespaceRun(s) ==
    \E k \in 1..(Len(s) - 1) : IsSpace(s[k]) /\ IsSpace(s[k + 1])

\* the stripped lines of text before its first line that is empty or begins
\* with the header token of a field of the table
LinesBeforeHeader(text) ==
    LET raw == str_split_nl(text)
        line == [k \in 1..Len(raw) |-> str_strip(raw[k])]
        stop(k) ==
            \/ line[k] = <<>>
            \/ \E f \in 1..Len(FieldTable) :
                   MatchAtCI(line[k], 1, FieldTable[f].header)
        r == FirstPos(1, Len(raw), {k \in 1..Len(raw) : stop(k)})
    IN  IF r = 0 THEN line ELSE Slice(line, 1, r - 1)

\* C12: join and whitespace rule.  The value stored for a line-accumulated
\* field is its accepted lines, each with its runs of whitespace collapsed
\* to one space, joined by ',' (Bauherrschaft, Lage, Zusatzgesuch) or by one
\* space (Bauvorhaben); it contains no two consecutive whitespace
\* characters; the accepted lines are the lines of the captured text before
\* the first empty or header-starting line.
C12_JoinAndWhitespace ==
    Parsed =>
        LET section == fix_encoding(sections[i])
        IN  \A f \in 1..Len(JoinTable) :
                JoinTable[f].key \in DOMAIN data =>
                    LET m == re_capture(section, JoinTable[f].header,
                                        JoinTable[f].term)
                        acc == LinesBeforeHeader(str_strip(m.group1))
                    IN  /\ ~HasWhitespaceRun(data[JoinTable[f].key])
                        /\ data[JoinTable[f].key] =
                              str_join(JoinTable[f].sep,
                                       [k \in 1..Len(acc) |-> re_sub_ws(acc[k])])

\* C13: download polling. Once wait_for_download has returned after the
\* click, a returned path names a completed PDF that this download produced:
\* it ends in '.pdf', it is not a '.crdownload' partial file, it was not in
\* the download directory before the click, and the browser has completed
\* the download; and None is returned exactly when the polls before the
\* timeout listed no '.pdf' file, the timeout having elapsed.
C13_DownloadPolling ==
    (dl_pc = "returned" /\ dl_chrome # "idle") =>
        /\ dl_result # None =>
               /\ endswith(dl_result, suffix_pdf)
               /\ ~endswith(dl_result, suffix_crdownload)
               /\ dl_result \notin dl_before
               /\ dl_chrome = "complete"
               /\ dl_result = name_download
        /\ dl_result = None <=> dl_pdfs = {}
        /\ dl_result = None => dl_time - dl_start >= Timeout

=============================================================================
